---------------------------- MODULE Spec2Model ----------------------------
(***************************************************************************)
(* A model of the 2-D geometry library geometry.py (Point, Line, Segment,  *)
(* Polygon).  Coordinates are exact rationals n/d (d > 0, lowest terms);   *)
(* Python floats that are exactly representable behave the same way.  A    *)
(* length |v| is irrational in general, so the model carries its square:   *)
(* every definition whose name ends in "2" returns the square of what the  *)
(* code returns, and comparisons of lengths are made on the squares.       *)
(***************************************************************************)
EXTENDS Integers, Sequences, FiniteSets

(***************************************************************************)
(* Bounds of the model.                                                    *)
(***************************************************************************)
\* segment and line endpoints range over the grid 0..MaxSegCoord squared
MaxSegCoord == 2
\* polygon vertices of the hull machine range over 0..MaxHullCoord squared
MaxHullCoord == 2
\* the longest vertex list handed to the Polygon constructor (hull machine)
MaxHullLen == 4
\* the polygon machine: the vertices of self and the points of lines over
\* 0..MaxPolyCoord squared, vertex lists of at most MaxPolyLen points
MaxPolyCoord == 1
MaxPolyLen == 3

(***************************************************************************)
(* Exact rational arithmetic standing for float arithmetic.                *)
(***************************************************************************)
RECURSIVE GCD(_, _)
GCD(a, b) == IF b = 0 THEN a ELSE GCD(b, a % b)

IAbs(i) == IF i < 0 THEN -i ELSE i

\* the rational n/d in lowest terms with a positive denominator
Rat(n, d) ==
    IF d = 1 THEN [n |-> n, d |-> 1]
    ELSE LET s == IF d < 0 THEN -1 ELSE 1
             g == GCD(IAbs(n), IAbs(d))
         IN  [n |-> (s * n) \div g, d |-> (s * d) \div g]

RI(i) == [n |-> i, d |-> 1]
RAdd(a, b) == IF a.d = 1 /\ b.d = 1 THEN [n |-> a.n + b.n, d |-> 1]
              ELSE Rat(a.n * b.d + b.n * a.d, a.d * b.d)
RSub(a, b) == IF a.d = 1 /\ b.d = 1 THEN [n |-> a.n - b.n, d |-> 1]
              ELSE Rat(a.n * b.d - b.n * a.d, a.d * b.d)
RMul(a, b) == IF a.d = 1 /\ b.d = 1 THEN [n |-> a.n * b.n, d |-> 1]
              ELSE Rat(a.n * b.n, a.d * b.d)
\* only used with b # 0
RDiv(a, b) == Rat(a.n * b.d, a.d * b.n)
RAbs(a) == [n |-> IAbs(a.n), d |-> a.d]
RLt(a, b) == a.n * b.d < b.n * a.d
RLe(a, b) == a.n * b.d <= b.n * a.d
RMin(a, b) == IF RLt(b, a) THEN b ELSE a
RMax(a, b) == IF RLt(a, b) THEN b ELSE a
RZero == RI(0)

\* 1 / EPS, EPS = 1e-8
EPS_INV == 100000000

\* equal(a, b): abs(a - b) < EPS.  q < EPS for a rational q = n/d >= 0 iff
\* n * EPS_INV < d, which for n >= 1 needs d > EPS_INV.
below_eps(q) == IF q.d <= EPS_INV THEN q.n = 0 ELSE q.n * EPS_INV < q.d
equal(a, b) == below_eps(RAbs(RSub(a, b)))

\* q < EPS^2 for a rational q >= 0: the squared form of "sqrt(q) < EPS".
\* n/d < 1/EPS_INV^2 iff n * EPS_INV < d / EPS_INV, which for n >= 1 needs
\* d > EPS_INV.
below_eps2(q) ==
    IF q.d <= EPS_INV THEN q.n = 0
    ELSE q.n * EPS_INV < (q.d + EPS_INV - 1) \div EPS_INV

(***************************************************************************)
(* class Point                                                             *)
(***************************************************************************)
Point(x, y) == [x |-> x, y |-> y]
\* a point with integer coordinates
Pt(x, y) == [x |-> RI(x), y |-> RI(y)]

Point_add(a, b) == Point(RAdd(a.x, b.x), RAdd(a.y, b.y))
Point_sub(a, b) == Point(RSub(a.x, b.x), RSub(a.y, b.y))
\* scaling by the rational k
Point_mul(a, k) == Point(RMul(a.x, k), RMul(a.y, k))
\* division by the rational k; the code asserts k # 0
Point_truediv(a, k) == Point(RDiv(a.x, k), RDiv(a.y, k))
\* abs(a) squared
Point_abs2(a) == RAdd(RMul(a.x, a.x), RMul(a.y, a.y))
\* equality of the coordinates without the tolerance
eq_exact(a, b) == a = b
\* Point.__eq__ and Point.__ne__
Point_eq(a, b) == equal(a.x, b.x) /\ equal(a.y, b.y)
Point_ne(a, b) == ~Point_eq(a, b)
dot(a, b) == RAdd(RMul(a.x, b.x), RMul(a.y, b.y))
cross(a, b) == RSub(RMul(a.x, b.y), RMul(a.y, b.x))
\* the three-way sign ccw() takes of the cross product c
ccw_sign(c) ==
    IF equal(c, RZero) THEN 0
    ELSE IF RLt(c, RZero) THEN -1
    ELSE 1
ccw(a, b) == ccw_sign(cross(a, b))

(***************************************************************************)
(* Python values that are not numbers or points.                           *)
(***************************************************************************)
\* None
None == [none |-> TRUE]
IsNone(v) == DOMAIN v = {"none"}
\* a raised exception
Exc(e) == [exc |-> e]
IsExc(v) == DOMAIN v = {"exc"}

(***************************************************************************)
(* class Line, class Segment(Line)                                         *)
(***************************************************************************)
\* Line.__init__ / Segment.__init__: assert p1 != p2
Line_init(t, p1, p2) ==
    IF Point_ne(p1, p2) THEN [type |-> t, p1 |-> p1, p2 |-> p2]
    ELSE Exc("AssertionError")
Line(p1, p2) == Line_init("Line", p1, p2)
Segment(p1, p2) == Line_init("Segment", p1, p2)

\* p1 + base * dot(p - p1, base) / abs(base) ** 2
projection_on(p1, base, p) ==
    Point_add(p1,
        Point_truediv(Point_mul(base, dot(Point_sub(p, p1), base)),
                      Point_abs2(base)))
Line_projection(self, p) == projection_on(self.p1, Point_sub(self.p2, self.p1), p)

Line_is_parallel(self, other) ==
    equal(cross(Point_sub(self.p2, self.p1), Point_sub(other.p2, other.p1)), RZero)

Line_is_including_point(self, p) ==
    IF Point_eq(self.p1, p) \/ Point_eq(self.p2, p) THEN TRUE
    ELSE ccw(Point_sub(self.p2, self.p1), Point_sub(p, self.p1)) = 0

\* abs(segment) squared
Segment_abs2(self) == Point_abs2(Point_sub(self.p2, self.p1))

\* Segment.is_including_point.  ref = d / L with d the dot product and L the
\* length (L2 its square); between is equal(ref, 0) or equal(ref, L) or
\* 0 < ref < L, stated on squares.
between(d, L2) ==
    \/ below_eps2(RDiv(RMul(d, d), L2))
    \/ below_eps2(RDiv(RMul(RSub(d, L2), RSub(d, L2)), L2))
    \/ (RLt(RZero, d) /\ RLt(d, L2))
Segment_is_including_point(self, p) ==
    /\ Line_is_including_point(self, p)
    /\ between(dot(Point_sub(self.p2, self.p1), Point_sub(p, self.p1)),
               Segment_abs2(self))

\* is_including_point as the object's class resolves it
is_including_point(self, p) ==
    IF self.type = "Segment" THEN Segment_is_including_point(self, p)
    ELSE Line_is_including_point(self, p)

\* Line._is_crossing_line; other may be a Segment (Segment._is_crossing_line
\* calls it with the operands swapped)
Line_is_crossing_line(self, other) ==
    IF is_including_point(self, other.p1) THEN TRUE
    ELSE ~Line_is_parallel(self, other)

Line_is_crossing_segment(self, other) ==
    IF is_including_point(self, other.p1) \/ is_including_point(self, other.p2)
    THEN TRUE
    ELSE LET ccw1 == ccw(Point_sub(self.p2, self.p1), Point_sub(other.p1, self.p1))
             ccw2 == ccw(Point_sub(self.p2, self.p1), Point_sub(other.p2, self.p1))
         IN  ccw1 * ccw2 < 0

Line_is_crossing(self, other) ==
    IF other.type = "Line" THEN Line_is_crossing_line(self, other)
    ELSE Line_is_crossing_segment(self, other)

\* Segment._is_crossing_line: other._is_crossing_line(self), other a Line
Segment_is_crossing_line(self, other) == Line_is_crossing_line(other, self)

\* the orientation test alone, without the four inclusion tests
crossing_by_orientation(self, other) ==
    /\ ccw(Point_sub(self.p2, self.p1), Point_sub(other.p1, self.p1))
           # ccw(Point_sub(self.p2, self.p1), Point_sub(other.p2, self.p1))
    /\ ccw(Point_sub(other.p2, other.p1), Point_sub(self.p1, other.p1))
           # ccw(Point_sub(other.p2, other.p1), Point_sub(self.p2, other.p1))

Segment_is_crossing_segment(self, other) ==
    IF \/ Segment_is_including_point(self, other.p1)
       \/ Segment_is_including_point(self, other.p2)
       \/ Segment_is_including_point(other, self.p1)
       \/ Segment_is_including_point(other, self.p2)
    THEN TRUE
    ELSE LET ccw1 == ccw(Point_sub(self.p2, self.p1), Point_sub(other.p1, self.p1))
             ccw2 == ccw(Point_sub(self.p2, self.p1), Point_sub(other.p2, self.p1))
             ccw3 == ccw(Point_sub(other.p2, other.p1), Point_sub(self.p1, other.p1))
             ccw4 == ccw(Point_sub(other.p2, other.p1), Point_sub(self.p2, other.p1))
         IN  ccw1 # ccw2 /\ ccw3 # ccw4

Segment_is_crossing(self, other) ==
    IF other.type = "Line" THEN Segment_is_crossing_line(self, other)
    ELSE Segment_is_crossing_segment(self, other)

\* self.is_crossing(other) as the object's class resolves it
is_crossing(self, other) ==
    IF self.type = "Segment" THEN Segment_is_crossing(self, other)
    ELSE Line_is_crossing(self, other)

\* Line.crossing_point, inherited unchanged by Segment
crossing_point(self, other) ==
    IF Line_is_parallel(self, other) \/ ~is_crossing(self, other) THEN None
    ELSE LET d1 == cross(Point_sub(self.p2, self.p1), Point_sub(other.p2, other.p1))
             d2 == cross(Point_sub(self.p2, self.p1), Point_sub(self.p2, other.p1))
         IN  IF equal(d1, RZero) /\ equal(d2, RZero) THEN other.p1
             ELSE Point_add(other.p1,
                      Point_mul(Point_sub(other.p2, other.p1), RDiv(d2, d1)))

\* Line.distance_to_point, squared
Line_distance_to_point2(self, p) ==
    Point_abs2(Point_sub(p, Line_projection(self, p)))

\* Segment.distance_to_point, squared
distance_via(self, p, projection) ==
    IF Segment_is_including_point(self, projection)
    THEN Point_abs2(Point_sub(p, projection))
    ELSE RMin(Point_abs2(Point_sub(self.p1, p)),
              Point_abs2(Point_sub(self.p2, p)))
Segment_distance_to_point2(self, p) == distance_via(self, p, Line_projection(self, p))

\* Segment.distance_to_segment, squared
Segment_distance_to_segment2(self, other) ==
    IF Segment_is_crossing(self, other) THEN RZero
    ELSE RMin(RMin(Segment_distance_to_point2(self, other.p1),
                   Segment_distance_to_point2(self, other.p2)),
              RMin(Segment_distance_to_point2(other, self.p1),
                   Segment_distance_to_point2(other, self.p2)))

(***************************************************************************)
(* class Polygon: an object is [points |-> sequence of Point, n |-> Nat]   *)
(***************************************************************************)
RECURSIVE collapse(_, _, _)
\* the loop of Polygon.__init__: append points[k..] to acc, skipping a point
\* equal to the last one kept
collapse(points, k, acc) ==
    IF k > Len(points) THEN acc
    ELSE IF Point_ne(acc[Len(acc)], points[k])
         THEN collapse(points, k + 1, Append(acc, points[k]))
         ELSE collapse(points, k + 1, acc)

\* Polygon.__init__: points[0] of an empty list raises IndexError, and a None
\* in the list raises AttributeError (None has neither copy() nor x)
polygon_object(ps) == [points |-> ps, n |-> Len(ps)]
Polygon(points) ==
    IF Len(points) = 0 THEN Exc("IndexError")
    ELSE IF \E k \in 1..Len(points) : IsNone(points[k]) THEN Exc("AttributeError")
    ELSE polygon_object(collapse(points, 2, <<points[1]>>))

\* index (k + 1) % n of a 1-based sequence
Succ(k, n) == (k % n) + 1

RECURSIVE area_sum(_, _)
area_sum(self, k) ==
    IF k > self.n THEN RZero
    ELSE RAdd(RDiv(cross(self.points[k], self.points[Succ(k, self.n)]), RI(2)),
              area_sum(self, k + 1))

\* the signed sum of the loop of area(), without the final abs()
area_signed(self) == area_sum(self, 1)

\* Polygon.area
Polygon_area(self) == RAbs(area_sum(self, 1))

\* the orientation of the k-th consecutive vertex triple
turn3(a, b, c) == ccw(Point_sub(b, a), Point_sub(c, b))
turn(self, k) ==
    turn3(self.points[k], self.points[Succ(k, self.n)],
          self.points[Succ(Succ(k, self.n), self.n)])

Polygon_is_convex(self) ==
    LET top    == IF \E k \in 1..self.n : turn(self, k) = 1 THEN 1 ELSE 0
        bottom == IF \E k \in 1..self.n : turn(self, k) = -1 THEN -1 ELSE 0
    IN  ~(top = 1 /\ bottom = -1)

\* The signed number of times the directed edge a -> b crosses the ray from p
\* in the +x direction.  Summed over a closed vertex loop that avoids p this is
\* the winding number, and theta of side_of_point is 2 * pi times it.
ray_crossing(a, b, p) ==
    IF /\ RLe(a.y, p.y) /\ RLt(p.y, b.y)
       /\ RLt(RZero, cross(Point_sub(b, a), Point_sub(p, a))) THEN 1
    ELSE IF /\ RLe(b.y, p.y) /\ RLt(p.y, a.y)
            /\ RLt(cross(Point_sub(b, a), Point_sub(p, a)), RZero) THEN -1
    ELSE 0

\* the k-th cyclic edge of a polygon as a Segment (an exception when its
\* endpoints are equal)
edge(poly, k) == Segment(poly.points[k], poly.points[Succ(k, poly.n)])

\* stands for the AssertionError of Segment() leaving side_of_point
SideRaised == 2

RECURSIVE side_of_point_loop(_, _, _, _)
\* the loop of Polygon.side_of_point from edge k on; w is theta / (2 * pi)
side_of_point_loop(self, p, k, w) ==
    IF k > self.n THEN (IF w = 0 THEN -1 ELSE 1)
    ELSE IF IsExc(edge(self, k)) THEN SideRaised
    ELSE IF Segment_is_including_point(edge(self, k), p) THEN 0
    ELSE side_of_point_loop(self, p, k + 1,
             w + ray_crossing(self.points[k], self.points[Succ(k, self.n)], p))

\* Polygon.side_of_point: 1 inside, 0 on an edge, -1 outside; SideRaised when
\* an edge has equal endpoints and Segment() raises
Polygon_side_of_point(self, p) == side_of_point_loop(self, p, 1, 0)

\* the sort key (p.y, p.x), compared exactly
key_lt(p, q) == RLt(p.y, q.y) \/ (p.y = q.y /\ RLt(p.x, q.x))

RECURSIVE insert_sorted(_, _)
\* s sorted; p goes after every element whose key is not greater (stable)
insert_sorted(s, p) ==
    IF Len(s) = 0 THEN <<p>>
    ELSE IF key_lt(p, s[Len(s)])
         THEN Append(insert_sorted(SubSeq(s, 1, Len(s) - 1), p), s[Len(s)])
         ELSE Append(s, p)

RECURSIVE sort_points(_)
\* points.sort(key=lambda p: (p.y, p.x))
sort_points(points) ==
    IF Len(points) = 0 THEN <<>>
    ELSE insert_sorted(sort_points(SubSeq(points, 1, Len(points) - 1)),
                       points[Len(points)])

RECURSIVE chain_pop_strict(_, _, _, _)
\* the while loop keeping curr only on a strict left turn (> 0 for >= 0)
chain_pop_strict(stack, prev, curr, next) ==
    IF ccw(Point_sub(curr, prev), Point_sub(next, curr)) > 0
    THEN stack \o <<prev, curr>>
    ELSE IF Len(stack) = 0 THEN <<prev>>
    ELSE chain_pop_strict(SubSeq(stack, 1, Len(stack) - 1), stack[Len(stack)],
                          prev, next)

RECURSIVE chain_pop(_, _, _, _)
\* the while loop of convex_hull: stack is the deque without prev and curr
chain_pop(stack, prev, curr, next) ==
    IF ccw(Point_sub(curr, prev), Point_sub(next, curr)) >= 0
    THEN stack \o <<prev, curr>>
    ELSE IF Len(stack) = 0 THEN <<prev>>
    ELSE chain_pop(SubSeq(stack, 1, Len(stack) - 1), stack[Len(stack)], prev, next)

\* one iteration of a for loop of convex_hull: pop curr and prev, run the while
\* loop, append next
chain_step(chain, next) ==
    LET m == Len(chain)
    IN  Append(chain_pop(SubSeq(chain, 1, m - 2), chain[m - 1], chain[m], next), next)

RECURSIVE chain_build(_, _, _)
\* a for loop of convex_hull over points[k..]
chain_build(chain, points, k) ==
    IF k > Len(points) THEN chain
    ELSE chain_build(chain_step(chain, points[k]), points, k + 1)

Reverse(s) == [k \in 1..Len(s) |-> s[Len(s) + 1 - k]]
DropLast(s) == SubSeq(s, 1, Len(s) - 1)

\* a chain of convex_hull (right from the sorted list, left from its reverse)
\* without its last point
chain_of(points) == DropLast(chain_build(<<points[1], points[2]>>, points, 3))

\* what convex_hull returns for self.n vertices, from the sorted vertex list
hull_of_sorted(points, n) ==
    IF n <= 2 THEN Polygon(points)
    ELSE IF n = 3
    THEN IF ccw(Point_sub(points[2], points[1]), Point_sub(points[3], points[1])) < 0
         THEN Polygon(<<points[1], points[3], points[2]>>)
         ELSE Polygon(points)
    ELSE Polygon(chain_of(points) \o chain_of(Reverse(points)))

\* self after convex_hull(): points = self.points; points.sort(...) sorts the
\* object's own list
Polygon_sorted(self) == [self EXCEPT !.points = sort_points(self.points)]

\* the Polygon convex_hull() returns
Polygon_convex_hull(self) == hull_of_sorted(sort_points(self.points), self.n)

RECURSIVE inside_points(_, _, _)
\* a for loop of convex_common from index k on: the points of s that
\* side_of_point places strictly inside poly, in order
inside_points(s, poly, k) ==
    IF k > Len(s) THEN <<>>
    ELSE IF Polygon_side_of_point(poly, s[k]) = 1
         THEN <<s[k]>> \o inside_points(s, poly, k + 1)
         ELSE inside_points(s, poly, k + 1)

\* seg1.crossing_point(seg2) when seg1.is_crossing(seg2), as a list
crossing_of(seg1, seg2) ==
    IF Segment_is_crossing(seg1, seg2) THEN <<crossing_point(seg1, seg2)>>
    ELSE <<>>

RECURSIVE crossings(_, _, _, _)
\* the double loop of convex_common from (a, b) on: the crossing point of every
\* crossing pair of edges, in loop order
crossings(ch_self, ch_other, a, b) ==
    IF a > ch_self.n THEN <<>>
    ELSE IF b > ch_other.n THEN crossings(ch_self, ch_other, a + 1, 1)
    ELSE crossing_of(edge(ch_self, a), edge(ch_other, b))
         \o crossings(ch_self, ch_other, a, b + 1)

\* Polygon(points).convex_hull(), the last step of convex_common and of
\* convex_cut_with_line; polygon is the exception when the constructor raised
hull_of_new(polygon) ==
    IF IsExc(polygon) THEN polygon ELSE Polygon_convex_hull(polygon)

\* convex_common after the two hulls are taken
common_of_hulls(ch_self, ch_other) ==
    IF \/ \E k \in 1..ch_self.n :
              Polygon_side_of_point(ch_other, ch_self.points[k]) = SideRaised
       \/ \E k \in 1..ch_other.n :
              Polygon_side_of_point(ch_self, ch_other.points[k]) = SideRaised
       \/ \E k \in 1..ch_self.n : IsExc(edge(ch_self, k))
       \/ \E k \in 1..ch_other.n : IsExc(edge(ch_other, k))
    THEN Exc("AssertionError")
    ELSE hull_of_new(Polygon(inside_points(ch_self.points, ch_other, 1)
                             \o inside_points(ch_other.points, ch_self, 1)
                             \o crossings(ch_self, ch_other, 1, 1)))

\* Polygon.convex_common: the returned Polygon, or the exception raised
Polygon_convex_common(self, other) ==
    common_of_hulls(Polygon_convex_hull(self), Polygon_convex_hull(other))

\* one iteration of the loop of convex_cut_with_line: vertex p is kept unless
\* it is to the right of the line, and the edge p -> q gives its crossing point
\* when its ends are strictly on opposite sides
cut_at(other, dir, p, q) ==
    (IF ccw(dir, Point_sub(p, other.p1)) # -1 THEN <<p>> ELSE <<>>)
    \o (IF ccw(Point_sub(p, other.p1), dir) * ccw(Point_sub(q, other.p1), dir) < 0
        THEN <<crossing_point(Segment(p, q), other)>> ELSE <<>>)

RECURSIVE cut_points(_, _, _)
\* the loop of convex_cut_with_line from vertex k on
cut_points(self, other, k) ==
    IF k > self.n THEN <<>>
    ELSE cut_at(other, Point_sub(other.p2, other.p1),
                self.points[k], self.points[Succ(k, self.n)])
         \o cut_points(self, other, k + 1)

\* Polygon.convex_cut_with_line: the returned Polygon, or the exception raised
Polygon_convex_cut_with_line(self, other) ==
    IF \E k \in 1..self.n : IsExc(edge(self, k)) THEN Exc("AssertionError")
    ELSE hull_of_new(Polygon(cut_points(self, other, 1)))

\* the setup of Polygon.diameter after the hull has more or fewer than 2
\* vertices: the (1-based) indices of the first vertex of least x and of the
\* first vertex of greatest x
RECURSIVE first_min_x(_, _, _)
first_min_x(points, k, best) ==
    IF k > Len(points) THEN best
    ELSE first_min_x(points, k + 1,
                     IF RLt(points[k].x, points[best].x) THEN k ELSE best)

RECURSIVE first_max_x(_, _, _)
first_max_x(points, k, best) ==
    IF k > Len(points) THEN best
    ELSE first_max_x(points, k + 1,
                     IF RLt(points[best].x, points[k].x) THEN k ELSE best)

\* the test of the calipers loop: advance i when cross(vi, vj) < 0
advance_i(hp, a, b) ==
    LET vi == Point_sub(hp.points[Succ(a, hp.n)], hp.points[a])
        vj == Point_sub(hp.points[Succ(b, hp.n)], hp.points[b])
    IN  RLt(cross(vi, vj), RZero)

(***************************************************************************)
(* Numbers with a square root.  abs() of a vector, unit_vector() and       *)
(* "** 0.5" take square roots; such a value is kept exactly as             *)
(* a + b * sqrt(m) with a and b rational and m a square-free integer       *)
(* (m = 1 and b = 0 for a rational value).                                 *)
(***************************************************************************)
Surd(a, b, m) == IF b = RZero \/ m = 1 THEN [a |-> IF m = 1 THEN RAdd(a, b) ELSE a,
                                             b |-> RZero, m |-> 1]
                 ELSE [a |-> a, b |-> b, m |-> m]
SR(q) == [a |-> q, b |-> RZero, m |-> 1]
SZero == SR(RZero)
\* the root two values share (one of them may be rational)
SRoot(u, v) == IF u.b = RZero THEN v.m ELSE u.m
SAdd(u, v) == Surd(RAdd(u.a, v.a), RAdd(u.b, v.b), SRoot(u, v))
SSub(u, v) == Surd(RSub(u.a, v.a), RSub(u.b, v.b), SRoot(u, v))
RECURSIVE square_part(_, _)
\* the greatest s >= 1 with s^2 dividing the integer N >= 1, found from k up
square_part(N, k) ==
    IF k * k > N THEN 1
    ELSE IF N % (k * k) = 0 THEN k * square_part(N \div (k * k), k)
    ELSE square_part(N, k + 1)
\* sqrt(q) for a rational q = n/d >= 0: sqrt(n * d) / d, squares taken out
SSqrt(q) ==
    IF q.n = 0 THEN SZero
    ELSE LET s == square_part(q.n * q.d, 2)
         IN  Surd(RZero, Rat(s, q.d), (q.n * q.d) \div (s * s))

\* the product.  Two values with the same root, or one of them rational,
\* multiply out; the only other products taken are of two pure roots,
\* b1 * sqrt(m1) * b2 * sqrt(m2) = b1 * b2 * sqrt(m1 * m2).
SMul(u, v) ==
    IF u.b = RZero \/ v.b = RZero \/ u.m = v.m
    THEN Surd(RAdd(RMul(u.a, v.a), RMul(RMul(u.b, v.b), RI(SRoot(u, v)))),
              RAdd(RMul(u.a, v.b), RMul(u.b, v.a)),
              SRoot(u, v))
    ELSE LET r == SSqrt(RI(u.m * v.m))
         IN  Surd(RZero, RMul(r.b, RMul(u.b, v.b)), r.m)
SNeg(u) == SSub(SZero, u)
RSign(q) == IF q.n > 0 THEN 1 ELSE IF q.n < 0 THEN -1 ELSE 0
\* the sign of a + b * sqrt(m): when a and b pull apart, a^2 against b^2 * m
SSign(u) ==
    IF u.b = RZero THEN RSign(u.a)
    ELSE IF u.a = RZero \/ RSign(u.a) = RSign(u.b) THEN RSign(u.b)
    ELSE IF RLt(RMul(RMul(u.b, u.b), RI(u.m)), RMul(u.a, u.a)) THEN RSign(u.a)
    ELSE RSign(u.b)
SLt(u, v) == SSign(SSub(u, v)) < 0
SAbs(u) == IF SSign(u) < 0 THEN SNeg(u) ELSE u

\* a point whose coordinates may hold a square root
SPoint(x, y) == [x |-> x, y |-> y]
SP(p) == SPoint(SR(p.x), SR(p.y))
SPoint_add(a, b) == SPoint(SAdd(a.x, b.x), SAdd(a.y, b.y))
SPoint_sub(a, b) == SPoint(SSub(a.x, b.x), SSub(a.y, b.y))
SPoint_mul(a, k) == SPoint(SMul(a.x, k), SMul(a.y, k))
SPoint_abs2(a) == SAdd(SMul(a.x, a.x), SMul(a.y, a.y))
Sdot(a, b) == SAdd(SMul(a.x, b.x), SMul(a.y, b.y))
Scross(a, b) == SSub(SMul(a.x, b.y), SMul(a.y, b.x))

\* equal(sqrt(D2), R) for rationals D2 >= 0 and R >= 0, that is
\* abs(sqrt(D2) - R) < EPS.  With t = D2 - R^2 = (sqrt(D2) - R)(sqrt(D2) + R):
\* t = 0 is equality; sqrt(D2) + R <= D2 + 1 + R, so t = n/d # 0 with
\* d * (D2 + 1 + R) <= 1/EPS is at least EPS away; else the test is
\* D2 < (R + EPS)^2 and (R < EPS or (R - EPS)^2 < D2).
equal_sqrt(D2, R) ==
    LET t == RSub(D2, RMul(R, R))
    IN  IF t = RZero THEN TRUE
        ELSE IF RLe(RMul(RI(t.d), RAdd(RAdd(D2, RI(1)), R)), RI(EPS_INV))
        THEN FALSE
        ELSE /\ RLt(RSub(RMul(t, RI(EPS_INV)), RMul(RI(2), R)), Rat(1, EPS_INV))
             /\ \/ RLt(RMul(R, RI(EPS_INV)), RI(1))
                \/ RLt(Rat(1, EPS_INV),
                       RAdd(RMul(t, RI(EPS_INV)), RMul(RI(2), R)))

\* the same for D2 = a + b * sqrt(m) with b # 0: D2 - R^2 is irrational, so
\* not 0, and the two bounds are compared as they stand
equal_sqrt_surd(D2, R) ==
    IF D2.b = RZero THEN equal_sqrt(D2.a, R)
    ELSE /\ SLt(D2, SR(RMul(RAdd(R, Rat(1, EPS_INV)), RAdd(R, Rat(1, EPS_INV)))))
         /\ \/ RLt(RMul(R, RI(EPS_INV)), RI(1))
            \/ SLt(SR(RMul(RSub(R, Rat(1, EPS_INV)), RSub(R, Rat(1, EPS_INV)))), D2)

\* Point.unit_vector: Point(0, 0) when equal(abs(self), 0), else
\* self / abs(self) = self * sqrt(1 / abs2)
unit_vector(self) ==
    IF below_eps2(Point_abs2(self)) THEN SP(Pt(0, 0))
    ELSE SPoint_mul(SP(self), SSqrt(RDiv(RI(1), Point_abs2(self))))

\* Point.rotate(pi / 2) about the origin: cos = 0, sin = 1
rotate_quarter(p) == SPoint(SNeg(p.y), p.x)

(***************************************************************************)
(* class Circle: an object is [center |-> Point, radius |-> rational]      *)
(***************************************************************************)
\* Circle.__init__
Circle(center, radius) ==
    IF RLt(RZero, radius) THEN [center |-> center, radius |-> radius]
    ELSE Exc("AssertionError")

\* Circle.side_of_point, with dist2 the squared distance from the center
Circle_side_of_point(self, p) ==
    LET dist2 == SPoint_abs2(SPoint_sub(SP(self.center), p))
    IN  IF equal_sqrt_surd(dist2, self.radius) THEN 0
        ELSE IF SLt(dist2, SR(RMul(self.radius, self.radius))) THEN 1 ELSE -1

\* the squared distance of the centers
center_dist2(self, other) == Point_abs2(Point_sub(self.center, other.center))

\* Circle.side_of_touching_circle
Circle_side_of_touching_circle(self, other) ==
    IF equal_sqrt(center_dist2(self, other),
                  RAbs(RSub(self.radius, other.radius)))
    THEN 1
    ELSE IF equal_sqrt(center_dist2(self, other),
                       RAdd(self.radius, other.radius))
    THEN -1
    ELSE 0

\* side_of_aparting_circle with radius - other.radius for its absolute value
aparting_unsigned(self, other) ==
    IF Circle_side_of_touching_circle(self, other) # 0 THEN 0
    ELSE IF /\ RLt(RZero, RSub(self.radius, other.radius))
            /\ RLt(center_dist2(self, other),
                   RMul(RSub(self.radius, other.radius),
                        RSub(self.radius, other.radius)))
         THEN 1
    ELSE IF RLt(RMul(RAdd(self.radius, other.radius),
                     RAdd(self.radius, other.radius)),
                center_dist2(self, other))
         THEN -1
    ELSE 0

\* Circle.side_of_aparting_circle: the distance of the centers against
\* abs(r1 - r2) and r1 + r2, both >= 0, compared on squares
Circle_side_of_aparting_circle(self, other) ==
    IF Circle_side_of_touching_circle(self, other) # 0 THEN 0
    ELSE IF RLt(center_dist2(self, other),
                RMul(RSub(self.radius, other.radius),
                     RSub(self.radius, other.radius)))
         THEN 1
    ELSE IF RLt(RMul(RAdd(self.radius, other.radius),
                     RAdd(self.radius, other.radius)),
                center_dist2(self, other))
         THEN -1
    ELSE 0

\* the tangent branches of crossing_points_with_circle
touching_point(self, other, unit, side) ==
    IF side = 1 /\ ~RLt(other.radius, self.radius)
    THEN <<SPoint_sub(SP(other.center), SPoint_mul(unit, SR(other.radius)))>>
    ELSE <<SPoint_add(SP(self.center), SPoint_mul(unit, SR(self.radius)))>>

\* the branch of two crossing points: dist = sqrt(dist2),
\* cosine = k / (2 * dist) = k / (2 * dist2) * dist and
\* h = (radius^2 - cosine^2) ** 0.5, where cosine^2 is rational
cosine_of(k, dist2) == SMul(SR(RDiv(k, RMul(RI(2), dist2))), SSqrt(dist2))
h_of(self, cosine) ==
    SSqrt(RSub(RMul(self.radius, self.radius), SMul(cosine, cosine).a))
crossing_pair(self, unit, cosine) ==
    LET p == SPoint_add(SP(self.center), SPoint_mul(unit, cosine))
        side == SPoint_mul(rotate_quarter(unit), h_of(self, cosine))
    IN  <<SPoint_add(p, side), SPoint_sub(p, side)>>

\* Circle.crossing_points_with_circle
Circle_crossing_points_with_circle(self, other) ==
    IF Circle_side_of_touching_circle(self, other) # 0
    THEN touching_point(self, other,
                        unit_vector(Point_sub(other.center, self.center)),
                        Circle_side_of_touching_circle(self, other))
    ELSE IF Circle_side_of_aparting_circle(self, other) = 0
    THEN crossing_pair(self, unit_vector(Point_sub(other.center, self.center)),
                       cosine_of(RAdd(RSub(RMul(self.radius, self.radius),
                                           RMul(other.radius, other.radius)),
                                      center_dist2(self, other)),
                                 center_dist2(self, other)))
    ELSE <<>>

\* The value of an area holding pi or atan2: pi * pi_part, plus
\* r^2 * atan2(y, x) for every arc (a function from [r2, y, x] to the number
\* of times it is added), plus rest.
area_value(pi_part, arcs, rest) == [pi |-> pi_part, arcs |-> arcs, rest |-> rest]
\* Circle.area: pi * radius ** 2
Circle_area(self) == area_value(RMul(self.radius, self.radius), <<>>, SZero)
\* abs(r2 * atan2(y, x)) = r2 * atan2(abs(y), x): atan2 is odd in y
arc(r2, y, x) == [r2 |-> r2, y |-> SAbs(y), x |-> x]
\* arc1 + arc2
arc_sum(a, b) == IF a = b THEN [t \in {a} |-> 2] ELSE [t \in {a, b} |-> 1]

\* self.area() in the place of the smaller of the two areas
own_area(self, other) == Circle_area(self)

\* min(self.area(), other.area())
smaller_area(self, other) ==
    IF RLt(Circle_area(other).pi, Circle_area(self).pi)
    THEN Circle_area(other) ELSE Circle_area(self)

\* the branch area_common_with_circle takes
area_branch(self, other) ==
    IF \/ Circle_side_of_aparting_circle(self, other) = 1
       \/ Circle_side_of_touching_circle(self, other) = 1
    THEN "smaller"
    ELSE IF \/ Circle_side_of_aparting_circle(self, other) = -1
            \/ Circle_side_of_touching_circle(self, other) = -1
    THEN "zero"
    ELSE "two points"

\* the last branch: theta1, theta2, arc1, arc2, tri1, tri2 of p1 and p2, with
\* c1 and c2 the centers
lens_area(self, other, c1, c2, p1, p2) ==
    area_value(RZero,
               arc_sum(arc(RMul(self.radius, self.radius),
                           Scross(SPoint_sub(p1, c1), SPoint_sub(c2, c1)),
                           Sdot(SPoint_sub(p1, c1), SPoint_sub(c2, c1))),
                       arc(RMul(other.radius, other.radius),
                           Scross(SPoint_sub(p1, c2), SPoint_sub(c1, c2)),
                           Sdot(SPoint_sub(p1, c2), SPoint_sub(c1, c2)))),
               SAdd(SMul(Scross(SPoint_sub(p1, c1), SPoint_sub(p2, c1)),
                         SR(Rat(1, 2))),
                    SMul(Scross(SPoint_sub(p2, c2), SPoint_sub(p1, c2)),
                         SR(Rat(1, 2)))))

\* Circle.area_common_with_circle
Circle_area_common_with_circle(self, other) ==
    IF area_branch(self, other) = "smaller" THEN smaller_area(self, other)
    ELSE IF area_branch(self, other) = "zero"
    THEN area_value(RZero, <<>>, SZero)
    ELSE LET points == Circle_crossing_points_with_circle(self, other)
         IN  lens_area(self, other, SP(self.center), SP(other.center),
                       points[1], points[2])

\* other.distance_to_point(p) squared, as the object's class resolves it
distance_to_point2(other, p) ==
    IF other.type = "Segment" THEN Segment_distance_to_point2(other, p)
    ELSE Line_distance_to_point2(other, p)

\* Circle.is_touching_line
Circle_is_touching_line(self, other) ==
    equal_sqrt(distance_to_point2(other, self.center), self.radius)

\* Circle.is_crossing_line
Circle_is_crossing_line(self, other) ==
    \/ Circle_is_touching_line(self, other)
    \/ RLt(distance_to_point2(other, self.center),
           RMul(self.radius, self.radius))

\* the last lines of crossing_points_with_line: dist = abs(projection - center)
\* and d = (radius^2 - dist^2) ** 0.5
chord(self, other, projection) ==
    LET side == SPoint_mul(unit_vector(Point_sub(other.p2, other.p1)),
                           SSqrt(RSub(RMul(self.radius, self.radius),
                                      Point_abs2(Point_sub(projection,
                                                           self.center)))))
    IN  <<SPoint_sub(SP(projection), side), SPoint_add(SP(projection), side)>>

\* Circle.crossing_points_with_line
Circle_crossing_points_with_line(self, other) ==
    IF ~Circle_is_touching_line(self, other) /\ ~Circle_is_crossing_line(self, other)
    THEN <<>>
    ELSE IF Circle_is_touching_line(self, other)
    THEN <<SP(Line_projection(other, self.center))>>
    ELSE chord(self, other, Line_projection(other, self.center))

(***************************************************************************)
(* State.                                                                  *)
(***************************************************************************)
VARIABLES
    segA, segB,     \* two Line / Segment objects (segA also: the Line an
                    \* operation of a Polygon or a Circle is given)
    self, other,    \* two Polygon objects: [points, n], or two Circle
                    \* objects: [center, radius]
    self0, other0,  \* their vertex lists right after construction
    op,             \* the operation called last ("new" right after construction)
    ret,            \* what it returned (or the exception it raised)
    pc, ch, i, j, si, sj, res   \* Polygon.diameter: position and locals

vars == <<segA, segB, self, other, self0, other0, op, ret,
          pc, ch, i, j, si, sj, res>>
segVars == <<segA, segB>>
polyVars == <<self, other, self0, other0>>
diamVars == <<pc, ch, i, j, si, sj, res>>

\* an object slot that holds nothing
Unset == [unset |-> TRUE]
IsPolygon(v) == DOMAIN v = {"points", "n"}
NoSegments == segA = Unset /\ segB = Unset
NoDiameter ==
    /\ pc = "idle" /\ ch = Unset /\ i = 0 /\ j = 0 /\ si = 0 /\ sj = 0
    /\ res = RZero

(***************************************************************************)
(* The Line / Segment machine: two objects and the operations between them *)
(***************************************************************************)
SegCoords == 0..MaxSegCoord
SegPoints == {Pt(x, y) : x \in SegCoords, y \in SegCoords}
\* every Line and Segment the constructor accepts over the grid
SegObjects ==
    {o \in {Line_init(t, p1, p2) : t \in {"Line", "Segment"},
                                   p1 \in SegPoints, p2 \in SegPoints} :
        ~IsExc(o)}

SegInit ==
    /\ segA \in SegObjects /\ segB \in SegObjects
    /\ op = "new" /\ ret = None
    /\ self = Unset /\ other = Unset /\ self0 = Unset /\ other0 = Unset
    /\ NoDiameter

\* segA.is_crossing(segB)
IsCrossing ==
    /\ op' = "is_crossing"
    /\ ret' = is_crossing(segA, segB)
    /\ UNCHANGED <<segVars, polyVars, diamVars>>

\* segA.crossing_point(segB)
CrossingPoint ==
    /\ op' = "crossing_point"
    /\ ret' = crossing_point(segA, segB)
    /\ UNCHANGED <<segVars, polyVars, diamVars>>

\* segA.distance_to_segment(segB), a method of Segment taking a Segment
DistanceToSegment ==
    /\ segA.type = "Segment" /\ segB.type = "Segment"
    /\ op' = "distance_to_segment"
    /\ ret' = Segment_distance_to_segment2(segA, segB)
    /\ UNCHANGED <<segVars, polyVars, diamVars>>

SegNext == IsCrossing \/ CrossingPoint \/ DistanceToSegment
SpecSeg == SegInit /\ [][SegNext]_vars

\* The segment distance machine: two Segment objects over a grid one column
\* wider than it is high, so that a row holds two segments of one line with
\* a gap between them, and one call segA.distance_to_segment(segB).
SegDistInit ==
    /\ \E a, b, c, d \in {Pt(x, y) : x \in 0..(MaxSegCoord + 1),
                                     y \in 0..MaxSegCoord} :
         /\ ~IsExc(Segment(a, b)) /\ ~IsExc(Segment(c, d))
         /\ segA = Segment(a, b) /\ segB = Segment(c, d)
    /\ op = "new" /\ ret = None
    /\ self = Unset /\ other = Unset /\ self0 = Unset /\ other0 = Unset
    /\ NoDiameter
SpecSegDist == SegDistInit /\ [][DistanceToSegment]_vars

(***************************************************************************)
(* The operations of Polygon objects.  A call runs to its return in one    *)
(* step, except diameter(), whose calipers loop takes a step per           *)
(* iteration.                                                              *)
(***************************************************************************)
\* every vertex list of 1..maxLen points over the grid lo..hi squared
PointLists(lo, hi, maxLen) ==
    UNION {[1..k -> {Pt(x, y) : x \in lo..hi, y \in lo..hi}] : k \in 1..maxLen}

\* self.area()
Area ==
    /\ pc = "idle"
    /\ op' = "area"
    /\ ret' = Polygon_area(self)
    /\ UNCHANGED <<segVars, polyVars, diamVars>>

\* self.is_convex()
IsConvex ==
    /\ pc = "idle"
    /\ op' = "is_convex"
    /\ ret' = Polygon_is_convex(self)
    /\ UNCHANGED <<segVars, polyVars, diamVars>>

\* self.convex_hull(): sorts self.points in place and returns a new Polygon
ConvexHull ==
    /\ pc = "idle"
    /\ op' = "convex_hull"
    /\ ret' = Polygon_convex_hull(self)
    /\ self' = Polygon_sorted(self)
    /\ UNCHANGED <<segVars, other, self0, other0, diamVars>>

\* self.convex_hull().convex_hull(): the second call is on the object the
\* first one returned, which nothing refers to afterwards
HullConvexHull ==
    /\ pc = "idle"
    /\ op = "convex_hull"
    /\ op' = "convex_hull.convex_hull"
    /\ ret' = Polygon_convex_hull(ret)
    /\ UNCHANGED <<segVars, polyVars, diamVars>>

\* self.convex_hull().is_convex()
HullIsConvex ==
    /\ pc = "idle"
    /\ op = "convex_hull"
    /\ op' = "convex_hull.is_convex"
    /\ ret' = Polygon_is_convex(ret)
    /\ UNCHANGED <<segVars, polyVars, diamVars>>

\* self.diameter() up to its loop: ch = self.convex_hull(), the early return
\* for 2 vertices, else the extreme vertices
DiameterCall ==
    /\ pc = "idle"
    /\ self' = Polygon_sorted(self)
    /\ ch' = Polygon_convex_hull(self)
    /\ IF ch'.n = 2
       THEN /\ op' = "diameter"
            /\ ret' = Point_abs2(Point_sub(ch'.points[1], ch'.points[2]))
            /\ UNCHANGED <<pc, i, j, si, sj, res>>
       ELSE /\ op' = "diameter:loop"
            /\ ret' = None
            /\ pc' = "loop"
            /\ i' = first_min_x(ch'.points, 1, 1)
            /\ j' = first_max_x(ch'.points, 1, 1)
            /\ si' = i'
            /\ sj' = j'
            /\ res' = RZero
    /\ UNCHANGED <<segVars, other, self0, other0>>

\* one iteration of the calipers loop
CalipersStep ==
    /\ pc = "loop"
    /\ i # sj \/ j # si
    /\ res' = RMax(res, Point_abs2(Point_sub(ch.points[i], ch.points[j])))
    /\ IF advance_i(ch, i, j)
       THEN i' = Succ(i, ch.n) /\ j' = j
       ELSE j' = Succ(j, ch.n) /\ i' = i
    /\ UNCHANGED <<segVars, polyVars, op, ret, pc, ch, si, sj>>

\* the loop condition fails: return res
DiameterReturn ==
    /\ pc = "loop"
    /\ i = sj /\ j = si
    /\ op' = "diameter"
    /\ ret' = res
    /\ pc' = "idle" /\ ch' = Unset /\ i' = 0 /\ j' = 0 /\ si' = 0 /\ sj' = 0
    /\ res' = RZero
    /\ UNCHANGED <<segVars, polyVars>>

\* self.convex_common(other): both hulls are taken first, which sorts the
\* vertex lists of both objects, whatever happens afterwards
ConvexCommon ==
    /\ pc = "idle"
    /\ op' = "convex_common"
    /\ ret' = Polygon_convex_common(self, other)
    /\ self' = Polygon_sorted(self)
    /\ other' = Polygon_sorted(other)
    /\ UNCHANGED <<segVars, self0, other0, diamVars>>

\* self.convex_cut_with_line(line)
ConvexCutWithLine(line) ==
    /\ pc = "idle"
    /\ op' = "convex_cut_with_line"
    /\ ret' = Polygon_convex_cut_with_line(self, line)
    /\ UNCHANGED <<segVars, polyVars, diamVars>>

(***************************************************************************)
(* The hull machine: one Polygon, convex_hull() and the operations built   *)
(* on it.                                                                  *)
(***************************************************************************)
HullLists == PointLists(0, MaxHullCoord, MaxHullLen)

HullInit ==
    /\ \E l \in HullLists : self = Polygon(l)
    /\ self0 = self.points
    /\ other = Unset /\ other0 = Unset
    /\ op = "new" /\ ret = None
    /\ NoSegments /\ NoDiameter

HullNext ==
    \/ ConvexHull
    \/ HullConvexHull
    \/ HullIsConvex
    \/ DiameterCall
    \/ CalipersStep
    \/ DiameterReturn
SpecHull == HullInit /\ [][HullNext]_vars

(***************************************************************************)
(* The hull of distinct points: a Polygon whose vertices are pairwise      *)
(* distinct, in any order, and one call of convex_hull() on it.            *)
(***************************************************************************)
DistinctInit ==
    /\ \E k \in 1..MaxHullLen :
         \E l \in [1..k -> {Pt(x, y) : x \in 0..MaxHullCoord,
                                       y \in 0..MaxHullCoord}] :
             /\ \A a, b \in 1..k : a # b => l[a] # l[b]
             /\ self = Polygon(l)
    /\ self0 = self.points
    /\ other = Unset /\ other0 = Unset
    /\ op = "new" /\ ret = None
    /\ NoSegments /\ NoDiameter

DistinctNext == op = "new" /\ ConvexHull
SpecDistinct == DistinctInit /\ [][DistinctNext]_vars

(***************************************************************************)
(* The polygon machine: two Polygon objects and every operation of the     *)
(* class that works on vertex lists, in any order.                         *)
(***************************************************************************)
PolyLists == PointLists(0, MaxPolyCoord, MaxPolyLen)
\* other is a polygon as the constructor's docstring asks for: MaxPolyLen
\* vertices listed counter-clockwise, every turn strictly to the left.  Its
\* vertices are on the grid of spacing 2, so that other may contain self,
\* overlap it, touch it in a point or along an edge, or be apart from it.
OtherLists ==
    {l \in [1..MaxPolyLen -> {Pt(2 * x, 2 * y) : x \in 0..MaxPolyCoord,
                                                  y \in 0..MaxPolyCoord}] :
        \A k \in 1..MaxPolyLen : turn([points |-> l, n |-> MaxPolyLen], k) = 1}

\* the directed lines through the origin and another grid point, both ways
PolyLines ==
    {Line(Pt(0, 0), Pt(x, y)) : x \in 0..MaxPolyCoord, y \in 0..MaxPolyCoord}
    \cup {Line(Pt(x, y), Pt(0, 0)) : x \in 0..MaxPolyCoord, y \in 0..MaxPolyCoord}

Init ==
    /\ \E l \in PolyLists : self = Polygon(l)
    /\ \E l \in OtherLists : other = Polygon(l)
    /\ self0 = self.points
    /\ other0 = other.points
    /\ op = "new" /\ ret = None
    /\ NoSegments /\ NoDiameter

Next ==
    \/ Area
    \/ IsConvex
    \/ ConvexHull
    \/ HullConvexHull
    \/ HullIsConvex
    \/ DiameterCall
    \/ CalipersStep
    \/ DiameterReturn
    \/ ConvexCommon
    \/ \E line \in PolyLines : ~IsExc(line) /\ ConvexCutWithLine(line)
Spec == Init /\ [][Next]_vars

(***************************************************************************)
(* Properties.  A polygon as constructed is remembered in self0 / other0;  *)
(* the properties compare what the operations return and leave behind with *)
(* what geometry says about those vertex lists.                            *)
(***************************************************************************)
\* the Polygon object self was right after construction
self_new == polygon_object(self0)

\* C1: no operation changes an existing Polygon: the vertex lists of the
\* receiver and of the argument stay as constructed, content and order, and so
\* area() and is_convex() keep returning what they return on the new object.
C1_NoMutation ==
    /\ self.points = self0
    /\ other.points = other0
    /\ op = "area" => ret = Polygon_area(self_new)
    /\ op = "is_convex" => ret = Polygon_is_convex(self_new)

NoConsecutiveEqual(points) ==
    \A k \in 1..(Len(points) - 1) : Point_ne(points[k], points[k + 1])

\* C2: in every reachable state, no two consecutive entries of a Polygon's
\* points are tolerance-equal and n is the length of points.
C2_PolygonInvariant ==
    \A P \in {self, other} :
        P.n = Len(P.points) /\ NoConsecutiveEqual(P.points)

\* C3: convex_hull() is idempotent: the hull of the hull has the vertex list of
\* the hull, same points in the same order.
C3_HullIdempotent ==
    op = "convex_hull.convex_hull"
        => ret.points = Polygon_convex_hull(self_new).points

\* C4: the polygon convex_hull() returns is convex: is_convex() on it is True.
C4_HullIsConvex ==
    op = "convex_hull.is_convex" => ret = TRUE

\* ---- C5 ----
PointsOf(points) == {points[k] : k \in 1..Len(points)}
\* r is to the left of the directed line a -> b, or on it
LeftOrOn(a, b, r) == RLe(RZero, cross(Point_sub(b, a), Point_sub(r, a)))
Collinear(a, b, r) == cross(Point_sub(b, a), Point_sub(r, a)) = RZero
\* r is on the segment a-b, strictly between its ends
StrictlyBetween(a, b, r) ==
    /\ Collinear(a, b, r)
    /\ RLt(RZero, dot(Point_sub(r, a), Point_sub(b, a)))
    /\ RLt(RZero, dot(Point_sub(r, b), Point_sub(a, b)))
\* p is on the boundary of the convex hull of S: some line through p and
\* another point of S has all of S on its left or on it
OnHullBoundary(S, p) ==
    \E q \in S \ {p} : \A r \in S : LeftOrOn(p, q, r)
\* at least 4 vertices, pairwise distinct, not all on one line
FourDistinctNotCollinear(points) ==
    /\ Len(points) >= 4
    /\ \A a, b \in 1..Len(points) : a # b => points[a] # points[b]
    /\ \E a, b, c \in 1..Len(points) : ~Collinear(points[a], points[b], points[c])
\* p comes first in the order by (y, x)
LeastYX(S, p) ==
    \A q \in S : RLt(p.y, q.y) \/ (p.y = q.y /\ RLe(p.x, q.x))
\* r is not strictly between a and b, given its side c of the line a -> b
NotSkipped(a, b, r, c) ==
    \/ c # RZero
    \/ ~RLt(RZero, dot(Point_sub(r, a), Point_sub(b, a)))
    \/ ~RLt(RZero, dot(Point_sub(r, b), Point_sub(a, b)))
\* the edge a -> b of the tour leaves all of S on its left or on it, and no
\* point of S is on it strictly between a and b
IsTourEdge(S, a, b) ==
    \A r \in S :
        /\ LeftOrOn(a, b, r)
        /\ NotSkipped(a, b, r, cross(Point_sub(b, a), Point_sub(r, a)))
\* hull lists the boundary points of S counter-clockwise from the least (y, x):
\* no point twice, points of S only, first the least (y, x), each followed
\* (cyclically) by the next boundary point counter-clockwise (so that every
\* listed point is on the boundary), and no point left out is on the boundary
IsBoundaryTour(S, hull) ==
    /\ \A a, b \in 1..Len(hull) : a # b => hull[a] # hull[b]
    /\ PointsOf(hull) \subseteq S
    /\ LeastYX(S, hull[1])
    /\ \A k \in 1..Len(hull) : IsTourEdge(S, hull[k], hull[Succ(k, Len(hull))])
    /\ \A p \in S \ PointsOf(hull) : ~OnHullBoundary(S, p)

\* C5: for at least 4 pairwise-distinct vertices not all collinear,
\* convex_hull().points lists exactly the input points on the hull boundary
\* (points inside a hull edge included), each once, counter-clockwise from the
\* input point of least (y, x); every input point is inside or on the result.
C5_HullIsBoundaryTour ==
    op = "convex_hull" /\ FourDistinctNotCollinear(self0)
        => IsBoundaryTour(PointsOf(self0), ret.points)

\* a hull was taken of 4 distinct points given in another order than the
\* hull's, three of them on one hull edge
C5_Witness ==
    /\ op = "convex_hull" /\ FourDistinctNotCollinear(self0)
    /\ ret.points # self0
    /\ \E k \in 1..ret.n :
           StrictlyBetween(ret.points[k],
                           ret.points[Succ(Succ(k, ret.n), ret.n)],
                           ret.points[Succ(k, ret.n)])

\* ---- C6 ----
Dist2(p, q) == Point_abs2(Point_sub(p, q))
\* the greatest squared distance between two of the points
MaxPairDist2(points) ==
    CHOOSE d \in {Dist2(p, q) : p \in PointsOf(points), q \in PointsOf(points)} :
        \A p \in PointsOf(points), q \in PointsOf(points) : RLe(Dist2(p, q), d)

\* C6: for a polygon of at least 2 vertices diameter() returns the greatest
\* distance between two of its vertices (compared on squares).
C6_DiameterIsFarthestPair ==
    op = "diameter" /\ Len(self0) >= 2 => ret = MaxPairDist2(self0)

\* ---- C7 ----
SideOf(l, p) == cross(Point_sub(l.p2, l.p1), Point_sub(p, l.p1))
\* the line l contains an endpoint of s, or the endpoints of s are strictly on
\* opposite sides of l
SegmentMeetsLine(s, l) ==
    \/ SideOf(l, s.p1) = RZero
    \/ SideOf(l, s.p2) = RZero
    \/ RLt(RMul(SideOf(l, s.p1), SideOf(l, s.p2)), RZero)

\* C7: for a Segment s and a Line l, s.is_crossing(l) is True exactly when l
\* contains an endpoint of s or the endpoints of s are strictly on opposite
\* sides of l, and it equals l.is_crossing(s).
C7_SegmentLineCrossing ==
    op = "is_crossing" /\ segA.type = "Segment" /\ segB.type = "Line"
        => /\ ret = SegmentMeetsLine(segA, segB)
           /\ ret = is_crossing(segB, segA)

\* ---- C8 ----
\* both orientation determinants of crossing_point are approx-zero
Coincident(a, b) ==
    /\ equal(cross(Point_sub(a.p2, a.p1), Point_sub(b.p2, b.p1)), RZero)
    /\ equal(cross(Point_sub(a.p2, a.p1), Point_sub(a.p2, b.p1)), RZero)

\* C8: when self and other lie on the same infinite line and cross,
\* crossing_point(other) returns other.p1.
C8_CoincidentCrossingPoint ==
    op = "crossing_point" /\ Coincident(segA, segB) /\ is_crossing(segA, segB)
        => ret = segB.p1

\* ---- C9 ----
\* 0 <= a <= b for rationals a and b
InUnit(a, b) == RLe(RZero, a) /\ RLe(a, b)
\* the segments a and b have a point in common: with da, db their directions
\* and w = b.p1 - a.p1, a.p1 + t * da = b.p1 + u * db has a solution with t and
\* u in [0, 1].  Not parallel: t = cross(w, db) / cross(da, db) and
\* u = cross(w, da) / cross(da, db).  Parallel: they are on one line and an
\* endpoint of one is on the other.
OnSegment(s, p) ==
    /\ SideOf(s, p) = RZero
    /\ InUnit(dot(Point_sub(p, s.p1), Point_sub(s.p2, s.p1)), Segment_abs2(s))
Param(num, den) == IF RLt(den, RZero) THEN InUnit(RSub(RZero, num), RSub(RZero, den))
                   ELSE InUnit(num, den)
SharePoint(a, b) ==
    IF cross(Point_sub(a.p2, a.p1), Point_sub(b.p2, b.p1)) = RZero
    THEN OnSegment(a, b.p1) \/ OnSegment(a, b.p2)
         \/ OnSegment(b, a.p1) \/ OnSegment(b, a.p2)
    ELSE /\ Param(cross(Point_sub(b.p1, a.p1), Point_sub(b.p2, b.p1)),
                  cross(Point_sub(a.p2, a.p1), Point_sub(b.p2, b.p1)))
         /\ Param(cross(Point_sub(b.p1, a.p1), Point_sub(a.p2, a.p1)),
                  cross(Point_sub(a.p2, a.p1), Point_sub(b.p2, b.p1)))

\* C9: a.distance_to_segment(b) = b.distance_to_segment(a), it is 0 exactly
\* when a.is_crossing(b), and a.is_crossing(b) exactly when the two segments
\* have a point in common.
C9_SegmentDistance ==
    op = "distance_to_segment"
        => /\ ret = Segment_distance_to_segment2(segB, segA)
           /\ (ret = RZero) = Segment_is_crossing(segA, segB)
           /\ Segment_is_crossing(segA, segB) = SharePoint(segA, segB)

\* the distance was taken of two segments that cross where neither ends, and
\* it is 0
C9_Witness ==
    /\ op = "distance_to_segment"
    /\ ret = RZero
    /\ \A p \in {segA.p1, segA.p2} : ~OnSegment(segB, p)
    /\ \A p \in {segB.p1, segB.p2} : ~OnSegment(segA, p)

\* ---- C10 ----
\* a convex polygon as the constructor asks for it: at least 3 vertices
\* listed counter-clockwise, every turn strictly to the left
ConvexCCW(points) ==
    /\ Len(points) >= 3
    /\ \A k \in 1..Len(points) : turn(polygon_object(points), k) = 1
\* no vertex of Q is strictly inside the line of the k-th edge of P, so that P
\* and Q meet on that line only
EdgeSeparates(P, Q, k) ==
    \A v \in PointsOf(Q) : RLe(cross(Point_sub(P[Succ(k, Len(P))], P[k]),
                                      Point_sub(v, P[k])), RZero)
\* the positions along the k-th edge of P (0 at its start, the squared length
\* at its end) of the vertices of Q on the line of that edge
AlongEdge(P, Q, k) ==
    {dot(Point_sub(v, P[k]), Point_sub(P[Succ(k, Len(P))], P[k])) :
        v \in {w \in PointsOf(Q) : Collinear(P[k], P[Succ(k, Len(P))], w)}}
\* the k-th edge of P and the part of Q on its line share more than a point
EdgeOverlap(P, Q, k) ==
    \E lo, hi \in AlongEdge(P, Q, k) :
        RLt(RMax(RZero, lo),
            RMin(Point_abs2(Point_sub(P[Succ(k, Len(P))], P[k])), hi))
\* the intersection of the convex polygons P and Q is empty or a single point:
\* the line of an edge of one of them separates them, and they share at most a
\* point of it
TouchOrApart(P, Q) ==
    \/ \E k \in 1..Len(P) : EdgeSeparates(P, Q, k) /\ ~EdgeOverlap(P, Q, k)
    \/ \E k \in 1..Len(Q) : EdgeSeparates(Q, P, k) /\ ~EdgeOverlap(Q, P, k)

\* C10: for two convex polygons whose intersection is empty or a single
\* point, convex_common returns a Polygon of at most 2 vertices and does not
\* raise.
C10_DegenerateCommonReturns ==
    op = "convex_common" /\ ConvexCCW(self0) /\ ConvexCCW(other0)
    /\ TouchOrApart(self0, other0)
        => IsPolygon(ret) /\ ret.n <= 2

(***************************************************************************)
(* The cut machine: a convex polygon listed counter-clockwise, a directed  *)
(* Line kept in segA, and one call self.convex_cut_with_line(segA).        *)
(***************************************************************************)
MaxCutCoord == 2
MaxCutLen == 4

CutPoints == {Pt(x, y) : x \in 0..MaxCutCoord, y \in 0..MaxCutCoord}
CutLists ==
    {l \in UNION {[1..k -> CutPoints] : k \in 3..MaxCutLen} : ConvexCCW(l)}
CutLines ==
    {o \in {Line(p1, p2) : p1 \in CutPoints, p2 \in CutPoints} : ~IsExc(o)}

CutInit ==
    /\ \E l \in CutLists : self = Polygon(l)
    /\ self0 = self.points
    /\ segA \in CutLines
    /\ segB = Unset /\ other = Unset /\ other0 = Unset
    /\ op = "new" /\ ret = None
    /\ NoDiameter

CutNext == ConvexCutWithLine(segA)
SpecCut == CutInit /\ [][CutNext]_vars

\* ---- C11 ----
\* the point of the line l on the edge a -> b whose ends are strictly on
\* opposite sides of l
CutCrossing(l, a, b) ==
    Point_add(a, Point_mul(Point_sub(b, a),
                           RDiv(SideOf(l, a), RSub(SideOf(l, a), SideOf(l, b)))))
\* the vertices of P not to the right of l, and the crossing point of every
\* edge of P whose ends are strictly on opposite sides of l
LeftPart(P, l) ==
    {P[k] : k \in {m \in 1..Len(P) : RLe(RZero, SideOf(l, P[m]))}}
    \cup {CutCrossing(l, P[k], P[Succ(k, Len(P))]) :
            k \in {m \in 1..Len(P) :
                     RLt(RMul(SideOf(l, P[m]), SideOf(l, P[Succ(m, Len(P))])),
                         RZero)}}

\* C11: for a convex counter-clockwise polygon and a directed line,
\* convex_cut_with_line returns a Polygon whose vertex set is the vertices not
\* to the right of the line plus the crossing points of the edges the line
\* cuts, and no returned vertex is to the right of the line.
C11_CutKeepsLeftPart ==
    op = "convex_cut_with_line" /\ ConvexCCW(self0)
        => /\ IsPolygon(ret)
           /\ PointsOf(ret.points) = LeftPart(self0, segA)
           /\ \A v \in PointsOf(ret.points) : RLe(RZero, SideOf(segA, v))

(***************************************************************************)
(* The area machine: a vertex list, the same list started at another       *)
(* vertex or reversed, and area() of the two Polygon objects.              *)
(***************************************************************************)
MaxAreaCoord == 1
MaxAreaLen == 4

\* the list V started s vertices later
Rotate(V, s) == [k \in 1..Len(V) |-> V[((k - 1 + s) % Len(V)) + 1]]
\* the cyclic rotations of V and V reversed
Variants(V) == {Rotate(V, s) : s \in 0..(Len(V) - 1)} \cup {Reverse(V)}

AreaInit ==
    /\ \E k \in 1..MaxAreaLen :
         \E V \in [1..k -> {Pt(x, y) : x \in 0..MaxAreaCoord,
                                       y \in 0..MaxAreaCoord}] :
             /\ NoConsecutiveEqual(V)
             /\ self = Polygon(V)
             /\ \E W \in Variants(V) : other = Polygon(W)
    /\ self0 = self.points
    /\ other0 = other.points
    /\ op = "new" /\ ret = None
    /\ NoSegments /\ NoDiameter

\* other.area() after self.area(): both results are kept
OtherArea ==
    /\ op = "area"
    /\ op' = "area,other.area"
    /\ ret' = <<ret, Polygon_area(other)>>
    /\ UNCHANGED <<segVars, polyVars, diamVars>>

AreaNext == (op = "new" /\ Area) \/ OtherArea
SpecArea == AreaInit /\ [][AreaNext]_vars

\* ---- C12 ----
\* no two cyclically adjacent points of V are equal
CyclicDistinct(V) ==
    NoConsecutiveEqual(V) /\ (Len(V) > 1 => Point_ne(V[Len(V)], V[1]))

\* C12: for a vertex list V without equal cyclically adjacent points,
\* Polygon(V).area() equals the area() of the Polygon built from any cyclic
\* rotation of V and from V reversed.
C12_AreaOfRotationAndReverse ==
    op = "area,other.area" /\ CyclicDistinct(self0) /\ other0 \in Variants(self0)
        => ret[1] = ret[2]

\* both areas were taken of a polygon of non-zero area and of its reversed
\* vertex list
C12_Witness ==
    /\ op = "area,other.area"
    /\ CyclicDistinct(self0)
    /\ Len(self0) >= 3
    /\ other0 = Reverse(self0)
    /\ ret[1] # RZero

(***************************************************************************)
(* The circle machine: two Circle objects, kept in self and other, and the *)
(* operations of one on the other.                                         *)
(***************************************************************************)
MaxCircleCoord == 2
MaxCircleRadius == 3

\* every Circle the constructor accepts with its center on the grid and an
\* integer radius
CircleObjects ==
    {c \in {Circle(Pt(x, y), RI(r)) : x \in 0..MaxCircleCoord,
                                      y \in 0..MaxCircleCoord,
                                      r \in 0..MaxCircleRadius} : ~IsExc(c)}

CircleInit ==
    /\ self \in CircleObjects /\ other \in CircleObjects
    /\ self0 = Unset /\ other0 = Unset
    /\ op = "new" /\ ret = None
    /\ NoSegments /\ NoDiameter

\* self.side_of_touching_circle(other)
SideOfTouchingCircle ==
    /\ op' = "side_of_touching_circle"
    /\ ret' = Circle_side_of_touching_circle(self, other)
    /\ UNCHANGED <<segVars, polyVars, diamVars>>

\* self.side_of_aparting_circle(other)
SideOfApartingCircle ==
    /\ op' = "side_of_aparting_circle"
    /\ ret' = Circle_side_of_aparting_circle(self, other)
    /\ UNCHANGED <<segVars, polyVars, diamVars>>

\* self.crossing_points_with_circle(other)
CrossingPointsWithCircle ==
    /\ op' = "crossing_points_with_circle"
    /\ ret' = Circle_crossing_points_with_circle(self, other)
    /\ UNCHANGED <<segVars, polyVars, diamVars>>

\* self.area_common_with_circle(other)
AreaCommonWithCircle ==
    /\ op' = "area_common_with_circle"
    /\ ret' = Circle_area_common_with_circle(self, other)
    /\ UNCHANGED <<segVars, polyVars, diamVars>>

CircleNext ==
    \/ SideOfTouchingCircle
    \/ SideOfApartingCircle
    \/ CrossingPointsWithCircle
    \/ AreaCommonWithCircle
SpecCircle == CircleInit /\ [][CircleNext]_vars

\* ---- C13 ----
\* (r1 - r2)^2 and (r1 + r2)^2
DiffRadii2(a, b) == RMul(RSub(a.radius, b.radius), RSub(a.radius, b.radius))
SumRadii2(a, b) == RMul(RAdd(a.radius, b.radius), RAdd(a.radius, b.radius))
\* the distance of the centers is |r1 - r2| or r1 + r2
Tangent(a, b) ==
    center_dist2(a, b) = DiffRadii2(a, b) \/ center_dist2(a, b) = SumRadii2(a, b)
\* 0 for tangent circles, else 1 for one strictly inside the other, else -1
\* for strictly apart, else 0
Apart(a, b) ==
    IF Tangent(a, b) THEN 0
    ELSE IF RLt(center_dist2(a, b), DiffRadii2(a, b)) THEN 1
    ELSE IF RLt(SumRadii2(a, b), center_dist2(a, b)) THEN -1
    ELSE 0

\* C13: side_of_aparting_circle returns 0 for tangent circles, else 1 when
\* the distance of the centers is below |r1 - r2|, else -1 when it is above
\* r1 + r2, else 0; it and side_of_touching_circle return the same with the
\* two circles swapped.
C13_ApartingClassification ==
    op = "side_of_aparting_circle"
        => /\ ret = Apart(self, other)
           /\ ret = Circle_side_of_aparting_circle(other, self)
           /\ Circle_side_of_touching_circle(self, other)
                  = Circle_side_of_touching_circle(other, self)

\* the smaller circle, strictly inside the larger one, was asked about the
\* larger one
C13_Witness ==
    /\ op = "side_of_aparting_circle"
    /\ ret = 1
    /\ RLt(self.radius, other.radius)

\* ---- C14 ----
\* C14: crossing_points_with_circle returns 1 point when
\* side_of_touching_circle is not 0, 2 points when the circles cross and none
\* when one is strictly inside or strictly apart from the other, and every
\* point returned is on both circles: side_of_point is 0 for self and other.
C14_CrossingPointsOnBoth ==
    op = "crossing_points_with_circle"
        => /\ Len(ret) = IF Circle_side_of_touching_circle(self, other) # 0 THEN 1
                         ELSE IF Apart(self, other) = 0 THEN 2 ELSE 0
           /\ \A k \in 1..Len(ret) :
                  /\ Circle_side_of_point(self, ret[k]) = 0
                  /\ Circle_side_of_point(other, ret[k]) = 0

\* ---- C15 ----
\* C15: c1.area_common_with_circle(c2) and c2.area_common_with_circle(c1)
\* return the same value and take the same branch.  The values are compared
\* as exact numbers: the same multiple of pi, the same arcs and the same
\* rest, whatever the order they are added in.
C15_CommonAreaSymmetric ==
    op = "area_common_with_circle"
        => /\ ret = Circle_area_common_with_circle(other, self)
           /\ area_branch(self, other) = area_branch(other, self)

\* the common area was taken of two crossing circles of different radii
C15_Witness ==
    /\ op = "area_common_with_circle"
    /\ area_branch(self, other) = "two points"
    /\ self.radius # other.radius
    /\ SSign(ret.rest) # 0

(***************************************************************************)
(* The constructor machine: two points, kept in self0, and one call of     *)
(* Line(p1, p2) or Segment(p1, p2) on them.  segA is the object made, and  *)
(* stays unset when the constructor raises.                                *)
(***************************************************************************)
MaxNewCoord == 2

\* the second point is the first one moved, along each axis, by nothing, by
\* EPS / 2, by 2 * EPS or by 1
NewOffsets == {RZero, Rat(1, 2 * EPS_INV), Rat(2, EPS_INV), RI(1)}

NewInit ==
    /\ \E x \in 0..MaxNewCoord, y \in 0..MaxNewCoord :
         \E dx \in NewOffsets, dy \in NewOffsets :
             self0 = <<Pt(x, y), Point(RAdd(RI(x), dx), RAdd(RI(y), dy))>>
    /\ self = Unset /\ other = Unset /\ other0 = Unset
    /\ op = "args" /\ ret = None
    /\ NoSegments /\ NoDiameter

\* segA = t(p1, p2) for the class t, or the exception the constructor raises
new_object(t, made) ==
    /\ op = "args"
    /\ op' = t
    /\ IF IsExc(made) THEN ret' = made /\ segA' = segA
       ELSE ret' = None /\ segA' = made
    /\ UNCHANGED <<segB, polyVars, diamVars>>
NewLine == new_object("Line", Line(self0[1], self0[2]))
NewSegment == new_object("Segment", Segment(self0[1], self0[2]))

NewNext == NewLine \/ NewSegment
SpecNew == NewInit /\ [][NewNext]_vars

\* ---- C16 ----
\* p and q differ by less than EPS in x and in y
Below(a, b) == RLt(RAbs(RSub(a, b)), Rat(1, EPS_INV))
ToleranceEqual(p, q) == Below(p.x, q.x) /\ Below(p.y, q.y)

\* C16: Line(p1, p2) and Segment(p1, p2) raise and make no object when p1 and
\* p2 are tolerance-equal; otherwise they succeed and the object holds the
\* two points.
C16_DegenerateLineRejected ==
    op \in {"Line", "Segment"}
        => IF ToleranceEqual(self0[1], self0[2])
           THEN IsExc(ret) /\ segA = Unset
           ELSE /\ ret = None
                /\ segA = [type |-> op, p1 |-> self0[1], p2 |-> self0[2]]

\* a Segment was asked for of two different points less than EPS apart, and
\* the constructor raised
C16_Witness ==
    /\ op = "Segment"
    /\ self0[1] # self0[2]
    /\ ToleranceEqual(self0[1], self0[2])
    /\ ret = Exc("AssertionError")

(***************************************************************************)
(* The diameter machine: one Polygon and calls of diameter(), whose loop   *)
(* takes a step per iteration.  A running call keeps running: the          *)
(* interpreter takes the next iteration, or the return, whenever there is  *)
(* one to take.                                                            *)
(***************************************************************************)
DiameterNext == DiameterCall \/ CalipersStep \/ DiameterReturn
SpecDiameter ==
    /\ HullInit
    /\ [][DiameterNext]_vars
    /\ WF_vars(CalipersStep)
    /\ WF_vars(DiameterReturn)

\* ---- C17 ----
\* C17: diameter() terminates for every polygon: a call that has entered the
\* calipers loop returns.
C17_DiameterTerminates == (pc = "loop") ~> (pc = "idle")

(***************************************************************************)
(* The circle and line machine: a Circle, kept in self, a Line or Segment, *)
(* kept in segA, and the operations of the circle on it.                   *)
(***************************************************************************)
CircleLineInit ==
    /\ self \in CircleObjects
    /\ segA \in SegObjects
    /\ segB = Unset /\ other = Unset /\ self0 = Unset /\ other0 = Unset
    /\ op = "new" /\ ret = None
    /\ NoDiameter

\* self.is_touching_line(segA)
IsTouchingLine ==
    /\ op' = "is_touching_line"
    /\ ret' = Circle_is_touching_line(self, segA)
    /\ UNCHANGED <<segVars, polyVars, diamVars>>

\* self.is_crossing_line(segA)
IsCrossingLine ==
    /\ op' = "is_crossing_line"
    /\ ret' = Circle_is_crossing_line(self, segA)
    /\ UNCHANGED <<segVars, polyVars, diamVars>>

\* self.crossing_points_with_line(segA)
CrossingPointsWithLine ==
    /\ op' = "crossing_points_with_line"
    /\ ret' = Circle_crossing_points_with_line(self, segA)
    /\ UNCHANGED <<segVars, polyVars, diamVars>>

CircleLineNext == IsTouchingLine \/ IsCrossingLine \/ CrossingPointsWithLine
SpecCircleLine == CircleLineInit /\ [][CircleLineNext]_vars

\* ---- C18 ----
\* C18: every point crossing_points_with_line returns, for a Line and for a
\* Segment, is on the circle: side_of_point is 0 for it.
C18_LinePointsOnCircle ==
    op = "crossing_points_with_line"
        => \A k \in 1..Len(ret) : Circle_side_of_point(self, ret[k]) = 0

\* ---- C19 ----
\* every edge of the hull hs that is_crossing an edge of the hull ho has a
\* crossing_point with it that is a point
CrossingEdgesGivePoints(hs, ho) ==
    \A a \in 1..hs.n, b \in 1..ho.n :
        (/\ ~IsExc(edge(hs, a)) /\ ~IsExc(edge(ho, b))
         /\ is_crossing(edge(hs, a), edge(ho, b)))
            => ~IsNone(crossing_point(edge(hs, a), edge(ho, b)))

\* C19: in convex_common of two convex polygons, whenever an edge seg1 of one
\* hull is_crossing an edge seg2 of the other, seg1.crossing_point(seg2) is a
\* point, never None, so that the call does not fail on it.
C19_CrossingEdgesHavePoint ==
    op = "convex_common" /\ ConvexCCW(self0) /\ ConvexCCW(other0)
        => /\ CrossingEdgesGivePoints(Polygon_convex_hull(self_new),
                                      Polygon_convex_hull(polygon_object(other0)))
           /\ ret # Exc("AttributeError")

(***************************************************************************)
(* The edge machine: one Polygon, of any vertex list the constructor       *)
(* accepts, and the operations that walk its cyclic edges as Segments.     *)
(***************************************************************************)
EdgeInit ==
    /\ \E l \in PolyLists : self = Polygon(l)
    /\ self0 = self.points
    /\ other = Unset /\ other0 = Unset
    /\ op = "new" /\ ret = None
    /\ NoSegments /\ NoDiameter

\* self.side_of_point(p)
SideOfPoint(p) ==
    /\ pc = "idle"
    /\ op' = "side_of_point"
    /\ ret' = Polygon_side_of_point(self, p)
    /\ UNCHANGED <<segVars, polyVars, diamVars>>

EdgeNext ==
    \/ \E x \in 0..MaxPolyCoord, y \in 0..MaxPolyCoord : SideOfPoint(Pt(x, y))
    \/ \E line \in PolyLines : ~IsExc(line) /\ ConvexCutWithLine(line)
SpecEdges == EdgeInit /\ [][EdgeNext]_vars

\* ---- C20 ----
\* C20: every cyclic edge of a constructed Polygon is a valid Segment:
\* Segment(points[i], points[(i + 1) % n]) succeeds for every i, so that
\* side_of_point and convex_cut_with_line do not fail on a degenerate edge.
C20_CyclicEdgesValid ==
    /\ \A k \in 1..self.n : ~IsExc(edge(self, k))
    /\ op = "side_of_point" => ret # SideRaised
    /\ op = "convex_cut_with_line" => ret # Exc("AssertionError")

=============================================================================
